---- MODULE Spec2Model ----
(***************************************************************************)
(* Verification model of the job-board front end: the skill matching and   *)
(* apply gating of the Jobs page (src/src/pages/Jobs.tsx) and its          *)
(* client-side job filter.                                                 *)
(*                                                                         *)
(* Strings are sequences of one-character strings, so that toLowerCase,    *)
(* includes and parseInt are computed character by character.  An optional *)
(* (nullable) value is a sequence of length 0 (null) or 1 (the value).     *)
(***************************************************************************)
EXTENDS Integers, Sequences, FiniteSets, TLC

\* ---------------------------------------------------------------- bounds
\* longest candidate / required skill list drawn in the skill-matching runs
MaxSkills == 2

\* most jobs in the loaded list of the apply runs
MaxJobs == 2
\* most application inserts awaiting their reply at one time
MaxInflight == 2
\* most jobs in the loaded list of the filter runs
MaxListed == 3
\* most applications on the employer screens
MaxApps == 1
\* most status updates awaiting their reply at one time
MaxUpdates == 1
\* most callers running a skill or filter function at one time
MaxCallers == 2
\* most job postings stored or on their way to the store
MaxPostings == 2
\* most rating records stored or on their way to the store
MaxRatings == 2

\* ---------------------------------------------------------------- values
Null == <<>>
Some(x) == <<x>>
IsNull(o) == Len(o) = 0
Val(o) == o[1]
\* JavaScript's  o || d  for a nullable array or object
OrElse(o, d) == IF IsNull(o) THEN d ELSE Val(o)

Upper ==
  <<"A","B","C","D","E","F","G","H","I","J","K","L","M",
    "N","O","P","Q","R","S","T","U","V","W","X","Y","Z">>
Lower ==
  <<"a","b","c","d","e","f","g","h","i","j","k","l","m",
    "n","o","p","q","r","s","t","u","v","w","x","y","z">>

\* String.prototype.toLowerCase on one character
LowerChar(c) ==
  IF \E i \in 1..26 : Upper[i] = c
  THEN Lower[CHOOSE i \in 1..26 : Upper[i] = c]
  ELSE c

\* variant: no folding, the comparison stays case-sensitive
toLowerCase_none(s) == s

\* String.prototype.toLowerCase
toLowerCase(s) == [i \in 1..Len(s) |-> LowerChar(s[i])]

\* Array.prototype.some
some(xs, P(_)) == \E i \in 1..Len(xs) : P(xs[i])

\* Array.prototype.filter: a fresh array of the elements that pass, visited
\* from index 0 upwards
filter(xs, P(_)) ==
  LET out[i \in 0..Len(xs)] ==
        IF i = 0 THEN <<>>
        ELSE IF P(xs[i]) THEN Append(out[i - 1], xs[i]) ELSE out[i - 1]
  IN  out[Len(xs)]

\* String.prototype.includes
includes(s, sub) ==
  \E k \in 0..(Len(s) - Len(sub)) : SubSeq(s, k + 1, k + Len(sub)) = sub

\* a string used as a condition: the empty string is the only falsy one
Truthy(s) == Len(s) > 0
\* a nullable number used as a condition: null and 0 are falsy
TruthyNum(o) == ~ IsNull(o) /\ Val(o) # 0

Digits == <<"0","1","2","3","4","5","6","7","8","9">>
IsDigit(c) == \E d \in 1..10 : Digits[d] = c
DigitVal(c) == (CHOOSE d \in 1..10 : Digits[d] = c) - 1
IsSpace(c) == c = " "

\* parseInt(s) in radix 10: leading blanks are skipped, an optional sign is
\* read, then the longest run of digits; Null stands for NaN
parseInt(s) ==
  LET start == IF \E k \in 1..Len(s) : ~ IsSpace(s[k])
               THEN CHOOSE k \in 1..Len(s) :
                      ~ IsSpace(s[k]) /\ \A m \in 1..(k - 1) : IsSpace(s[m])
               ELSE Len(s) + 1
      signed == start <= Len(s) /\ s[start] \in {"+", "-"}
      first == IF signed THEN start + 1 ELSE start
      stop == IF \E k \in first..Len(s) : ~ IsDigit(s[k])
              THEN CHOOSE k \in first..Len(s) :
                     ~ IsDigit(s[k]) /\ \A m \in first..(k - 1) : IsDigit(s[m])
              ELSE Len(s) + 1
      value[k \in (first - 1)..(stop - 1)] ==
        IF k = first - 1 THEN 0 ELSE 10 * value[k - 1] + DigitVal(s[k])
  IN  IF stop = first THEN Null
      ELSE IF signed /\ s[start] = "-" THEN Some(0 - value[stop - 1])
           ELSE Some(value[stop - 1])

\* x > y and x < y where x may be NaN: every comparison with NaN is false
NumGt(x, y) == ~ IsNull(x) /\ Val(x) > y
NumLt(x, y) == ~ IsNull(x) /\ Val(x) < y

\* ------------------------------------------------------- skill matching
\* variant: the arguments of the filter swapped, so the requirement's
\* spelling is returned
getMatchingSkills_requiredSpelling(userSkills, requiredSkills) ==
  filter(requiredSkills,
         LAMBDA required :
           some(userSkills,
                LAMBDA skill : toLowerCase(required) = toLowerCase(skill)))

\* variant: one output element per matching (requirement, candidate) pair
getMatchingSkills_perRequirement(userSkills, requiredSkills) ==
  LET out[j \in 0..Len(requiredSkills)] ==
        IF j = 0 THEN <<>>
        ELSE out[j - 1] \o
             filter(userSkills,
                    LAMBDA skill :
                      toLowerCase(requiredSkills[j]) = toLowerCase(skill))
  IN  out[Len(requiredSkills)]

\* variant: a set-like result, only the first occurrence of a string is kept
getMatchingSkills_dedup(userSkills, requiredSkills) ==
  LET out[i \in 0..Len(userSkills)] ==
        IF i = 0 THEN <<>>
        ELSE IF /\ some(requiredSkills,
                        LAMBDA required :
                          toLowerCase(required) = toLowerCase(userSkills[i]))
                /\ \A k \in 1..Len(out[i - 1]) : out[i - 1][k] # userSkills[i]
             THEN Append(out[i - 1], userSkills[i])
             ELSE out[i - 1]
  IN  out[Len(userSkills)]

getMatchingSkills(userSkills, requiredSkills) ==
  filter(userSkills,
         LAMBDA skill :
           some(requiredSkills,
                LAMBDA required : toLowerCase(required) = toLowerCase(skill)))

\* variant: the comparison without case folding
getMissingSkills_caseSensitive(userSkills, requiredSkills) ==
  filter(requiredSkills,
         LAMBDA required : ~ some(userSkills, LAMBDA skill : skill = required))

getMissingSkills(userSkills, requiredSkills) ==
  filter(requiredSkills,
         LAMBDA required :
           ~ some(userSkills,
                  LAMBDA skill : toLowerCase(skill) = toLowerCase(required)))


\* --------------------------------------------------------- Jobs page state
VARIABLES
  user,          \* useAuth().user: TRUE when a user is signed in
  profile,       \* useAuth().profile: Null or Some([role, skills])
  jobs,          \* the loaded job list (useState<Job[]>)
  filters,       \* the filter criteria (useState<JobFilters>)
  applications,  \* ids of the jobs shown as applied (useState<Set<string>>)
  inflight,      \* inserts of application records awaiting their reply
  cards,         \* Null, or Some(the per-job values of the last render)
  lastApply,     \* Null, or Some(what the last applyToJob call did)
  filteredJobs,  \* the list the component body derives from jobs and filters
  showAdvanced   \* JobFiltersComponent: the advanced inputs are rendered

\* ------------------------------------------- employer screens' state
VARIABLES
  dbApplications,    \* the job_applications rows of the backing store
  mgrApplications,   \* ApplicationsManager: useState<Application[]>
  dashApplications,  \* EmployerDashboard: useState<JobApplication[]>
  statusUpdates,     \* status updates awaiting their reply
  mgrCards           \* Null, or Some(the last ApplicationsManager render)

\* ------------------------------------- invocations of the pure functions
VARIABLES
  calls              \* the invocations in progress, one record per caller

\* ----------------------------------------------- skills manager's state
VARIABLES
  sm_skills,     \* SkillsManager: the local skill list (useState<string[]>)
  sm_newSkill,   \* SkillsManager: the text of the input
  sm_isLoading,  \* SkillsManager: a profile update is awaited
  sm_update,     \* Null, or Some(the profile update awaiting its reply)
  sm_dbSkills    \* the skills column of the user's stored profile

\* ------------------------------------------------ job posting's state
VARIABLES
  form_job,             \* JobPostingForm: Null, or Some(the posting edited)
  form_requiredSkills,  \* JobPostingForm: useState<string[]>
  form_newSkill,        \* JobPostingForm: the text of the skill input
  form_isLoading,       \* JobPostingForm: a save is awaited
  form_onSuccess,       \* JobPostingForm: onSuccess was called
  dash_newJob,          \* EmployerDashboard: the fields of the create dialog
  jobSaves,             \* inserts and updates of postings awaiting a reply
  dbJobs                \* the jobs rows of the backing store

\* ------------------------------------------------ rating dialog's state
VARIABLES
  rd_isOpen,      \* EmployerDashboard: isRatingDialogOpen
  rd_rating,      \* RatingDialog: the stars chosen, 0 for none
  rd_review,      \* RatingDialog: the text of the review
  rd_isLoading,   \* RatingDialog: an insert is awaited
  rd_insert,      \* Null, or Some(the rating record awaiting its reply)
  rd_submitted,   \* number of calls of onRatingSubmitted
  dbRatings       \* the ratings rows of the backing store

pageVars ==
  <<user, profile, jobs, filters, applications, inflight, cards, lastApply,
    filteredJobs, showAdvanced>>
employerVars ==
  <<dbApplications, mgrApplications, dashApplications, statusUpdates,
    mgrCards>>
skillsMgrVars == <<sm_skills, sm_newSkill, sm_isLoading, sm_update, sm_dbSkills>>
\* the state of the forms and dialogs
postingVars ==
  <<form_job, form_requiredSkills, form_newSkill, form_isLoading,
    form_onSuccess, dash_newJob, jobSaves, dbJobs>>
ratingVars ==
  <<rd_isOpen, rd_rating, rd_review, rd_isLoading, rd_insert, rd_submitted,
    dbRatings>>
formVars == <<skillsMgrVars, postingVars, ratingVars>>
\* what the Jobs page handlers never touch
restVars == <<employerVars, calls, formVars>>
\* what the forms and dialogs never touch
coreVars == <<pageVars, employerVars, calls>>

vars == <<pageVars, employerVars, calls, formVars>>

\* no employer screen is mounted
EmployerIdle ==
  /\ dbApplications = <<>>
  /\ mgrApplications = <<>>
  /\ dashApplications = <<>>
  /\ statusUpdates = <<>>
  /\ mgrCards = Null
\* the skills manager is not mounted
SkillsMgrIdle ==
  /\ sm_skills = <<>>
  /\ sm_newSkill = <<>>
  /\ sm_isLoading = FALSE
  /\ sm_update = Null
  /\ sm_dbSkills = Null
\* the create dialog of the dashboard as it opens
EmptyNewJob == [title |-> <<>>, description |-> <<>>]
\* no posting form or dialog is mounted
PostingIdle ==
  /\ form_job = Null
  /\ form_requiredSkills = <<>>
  /\ form_newSkill = <<>>
  /\ form_isLoading = FALSE
  /\ form_onSuccess = FALSE
  /\ dash_newJob = EmptyNewJob
  /\ jobSaves = <<>>
  /\ dbJobs = <<>>
\* the rating dialog is closed and was never used
RatingIdle ==
  /\ rd_isOpen = FALSE
  /\ rd_rating = 0
  /\ rd_review = <<>>
  /\ rd_isLoading = FALSE
  /\ rd_insert = Null
  /\ rd_submitted = 0
  /\ dbRatings = <<>>
\* no form or dialog is mounted
FormsIdle == SkillsMgrIdle /\ PostingIdle /\ RatingIdle
\* nothing but the Jobs page is in use
RestIdle == EmployerIdle /\ calls = <<>> /\ FormsIdle

\* skill strings: spellings of one skill in three cases, one with a blank
\* inside, and a different skill
js == <<"j","s">>
JS == <<"J","S">>
Js == <<"J","s">>
J_s == <<"J"," ","s">>
sq == <<"s","q">>
SkillPool == {js, JS, Js, J_s, sq}

SkillLists == UNION {[1..n -> SkillPool] : n \in 0..MaxSkills}
\* a nullable skill array
OptSkillLists == {Null} \cup {Some(l) : l \in SkillLists}

EmptyFilters ==
  [search |-> <<>>, location |-> <<>>, jobType |-> <<>>,
   salaryMin |-> <<>>, salaryMax |-> <<>>]

\* a job row whose only varying column is required_skills
SkillJob(id, req) ==
  [id |-> id, title |-> <<"d","e","v">>, company_name |-> <<"c","o">>,
   description |-> <<"j","o","b">>, location |-> Null, job_type |-> Null,
   salary_min |-> Null, salary_max |-> Null, required_skills |-> req]

\* variant: the search reads the title only
searchFails_titleOnly(job, f) ==
  Truthy(f.search)
    /\ ~ includes(toLowerCase(job.title), toLowerCase(f.search))

\* the search check: true when the job is to be dropped by it
searchFails(job, f) ==
  Truthy(f.search)
    /\ LET searchLower == toLowerCase(f.search)
       IN  /\ ~ includes(toLowerCase(job.title), searchLower)
           /\ ~ includes(toLowerCase(job.company_name), searchLower)
           /\ ~ includes(toLowerCase(job.description), searchLower)
           /\ ~ (~ IsNull(job.location)
                   /\ includes(toLowerCase(Val(job.location)), searchLower))

\* variant: a job without location passes the location check
locationFails_absentPasses(job, f) ==
  Truthy(f.location)
    /\ ~ IsNull(job.location)
    /\ ~ includes(toLowerCase(Val(job.location)), toLowerCase(f.location))

\* the location check
locationFails(job, f) ==
  Truthy(f.location)
    /\ ~ (~ IsNull(job.location)
            /\ includes(toLowerCase(Val(job.location)),
                        toLowerCase(f.location)))

\* variant: the job type compared like the texts, case folded
jobTypeFails_caseFolded(job, f) ==
  Truthy(f.jobType)
    /\ (IsNull(job.job_type)
          \/ toLowerCase(Val(job.job_type)) # toLowerCase(f.jobType))

\* the job type check
jobTypeFails(job, f) == Truthy(f.jobType) /\ job.job_type # Some(f.jobType)

\* the two salary checks
salaryMinFails(job, f) ==
  Truthy(f.salaryMin) /\ TruthyNum(job.salary_max)
    /\ NumGt(parseInt(f.salaryMin), Val(job.salary_max))
salaryMaxFails(job, f) ==
  Truthy(f.salaryMax) /\ TruthyNum(job.salary_min)
    /\ NumLt(parseInt(f.salaryMax), Val(job.salary_min))

\* variant: a job whose text matches the search is kept without looking at
\* the other criteria
keepJob_searchShortCircuit(job, f) ==
  IF Truthy(f.search) THEN ~ searchFails(job, f)
  ELSE IF locationFails(job, f) THEN FALSE
  ELSE IF jobTypeFails(job, f) THEN FALSE
  ELSE IF salaryMinFails(job, f) THEN FALSE
  ELSE IF salaryMaxFails(job, f) THEN FALSE
  ELSE TRUE

\* the callback of jobs.filter: the first failing check returns false
keepJob(job, f) ==
  IF searchFails(job, f) THEN FALSE
  ELSE IF locationFails(job, f) THEN FALSE
  ELSE IF jobTypeFails(job, f) THEN FALSE
  ELSE IF salaryMinFails(job, f) THEN FALSE
  ELSE IF salaryMaxFails(job, f) THEN FALSE
  ELSE TRUE

\* variant: the kept jobs are collected at the front, newest match first
filterJobs_prepend(jobList, f) ==
  LET out[i \in 0..Len(jobList)] ==
        IF i = 0 THEN <<>>
        ELSE IF keepJob(jobList[i], f) THEN <<jobList[i]>> \o out[i - 1]
             ELSE out[i - 1]
  IN  out[Len(jobList)]

\* const filteredJobs = jobs.filter(job => ...)
filterJobs(jobList, f) == filter(jobList, LAMBDA job : keepJob(job, f))

\* profile?.skills
ProfileSkills(prof) == IF IsNull(prof) THEN Null ELSE Val(prof).skills

\* variant: a candidate without skills is refused here
canApplyToJob_needsSkills(prof, job) ==
  IF IsNull(ProfileSkills(prof)) THEN FALSE
  ELSE /\ Len(Val(ProfileSkills(prof))) > 0
       /\ Len(getMissingSkills(Val(ProfileSkills(prof)),
                               OrElse(job.required_skills, <<>>))) = 0

canApplyToJob(prof, job) ==
  IF IsNull(ProfileSkills(prof)) \/ IsNull(job.required_skills) THEN TRUE
  ELSE LET missingSkills ==
             getMissingSkills(Val(ProfileSkills(prof)), Val(job.required_skills))
       IN  Len(missingSkills) = 0

\* jobs.find(j => j.id === jobId): the index of the first such job, 0 if none
FindJob(jobList, jobId) ==
  IF \E i \in 1..Len(jobList) : jobList[i].id = jobId
  THEN CHOOSE i \in 1..Len(jobList) :
         /\ jobList[i].id = jobId
         /\ \A k \in 1..(i - 1) : jobList[k].id # jobId
  ELSE 0

\* variant: no check of the required skills before the insert
applyToJobOutcome_noSkillCheck(usr, prof, jobList, jobId) ==
  IF ~ usr \/ IsNull(prof) THEN "return_no_user"
  ELSE IF FindJob(jobList, jobId) = 0 THEN "return_no_job"
  ELSE IF IsNull(Val(prof).skills) \/ Len(OrElse(Val(prof).skills, <<>>)) = 0
       THEN "toast_add_skills"
       ELSE "insert"

\* the synchronous part of applyToJob: which exit it takes
applyToJobOutcome(usr, prof, jobList, jobId) ==
  IF ~ usr \/ IsNull(prof) THEN "return_no_user"
  ELSE IF FindJob(jobList, jobId) = 0 THEN "return_no_job"
  ELSE IF ~ canApplyToJob(prof, jobList[FindJob(jobList, jobId)])
       THEN "toast_skills_required"
       ELSE IF IsNull(Val(prof).skills)
                 \/ Len(OrElse(Val(prof).skills, <<>>)) = 0
            THEN "toast_add_skills"
            ELSE "insert"

\* the Apply button is rendered for a signed-in job seeker only
ApplyButtonShown(usr, prof) ==
  ~ IsNull(prof) /\ Val(prof).role = "job_seeker" /\ usr

\* the disabled attribute of the Apply button of one job card
ApplyButtonDisabled(prof, applied, job) ==
  \/ job.id \in applied
  \/ ~ canApplyToJob(prof, job)
  \/ IsNull(Val(prof).skills)
  \/ Len(OrElse(Val(prof).skills, <<>>)) = 0

\* Array.prototype.includes: some element is this very string
arrayIncludes(xs, x) == \E i \in 1..Len(xs) : xs[i] = x

\* the required-skill badges of a job card, in list order: TRUE for a badge
\* drawn as matched; no badge without required skills
Badges(matchingSkills, job) ==
  LET required == OrElse(job.required_skills, <<>>)
  IN  [k \in 1..Len(required) |-> arrayIncludes(matchingSkills, required[k])]

\* the values the render computes for one job card
Card(prof, job) ==
  LET userSkills == OrElse(ProfileSkills(prof), <<>>)
      matchingSkills ==
        getMatchingSkills(userSkills, OrElse(job.required_skills, <<>>))
  IN  [matchingSkills |-> matchingSkills,
       missingSkills |->
         getMissingSkills(userSkills, OrElse(job.required_skills, <<>>)),
       canApply |-> canApplyToJob(prof, job),
       badges |-> Badges(matchingSkills, job)]

\* one render of the job list
Render ==
  /\ IsNull(cards)
  /\ cards' = Some([i \in 1..Len(filteredJobs) |->
                      Card(profile, filteredJobs[i])])
  /\ UNCHANGED <<user, profile, jobs, filters, applications, inflight,
                 lastApply, filteredJobs, showAdvanced>>
  /\ UNCHANGED restVars

\* applyToJob(jobId) up to its await: the early returns, or the insert is sent
ApplyToJob(jobId) ==
  LET did == applyToJobOutcome(user, profile, jobs, jobId)
  IN  /\ Len(inflight) < MaxInflight
      /\ inflight' = IF did = "insert" THEN Append(inflight, jobId)
                     ELSE inflight
      /\ lastApply' = Some([jobId |-> jobId, did |-> did])
      /\ UNCHANGED <<user, profile, jobs, filters, applications, cards,
                     filteredJobs, showAdvanced>>
      /\ UNCHANGED restVars

RemoveAt(xs, k) == SubSeq(xs, 1, k - 1) \o SubSeq(xs, k + 1, Len(xs))

\* the insert answers without error: the job id joins the applied set
InsertSucceeds(k) ==
  /\ k \in 1..Len(inflight)
  /\ applications' = applications \cup {inflight[k]}
  /\ inflight' = RemoveAt(inflight, k)
  /\ UNCHANGED <<user, profile, jobs, filters, cards, lastApply,
                 filteredJobs, showAdvanced>>
  /\ UNCHANGED restVars

\* variant: a failed insert marks the job as applied all the same
InsertFails_marksApplied(k) ==
  /\ k \in 1..Len(inflight)
  /\ applications' = applications \cup {inflight[k]}
  /\ inflight' = RemoveAt(inflight, k)
  /\ UNCHANGED <<user, profile, jobs, filters, cards, lastApply,
                 filteredJobs, showAdvanced>>
  /\ UNCHANGED restVars

\* the insert answers with an error: only a toast is shown
InsertFails(k) ==
  /\ k \in 1..Len(inflight)
  /\ inflight' = RemoveAt(inflight, k)
  /\ UNCHANGED <<user, profile, jobs, filters, applications, cards,
                 lastApply, filteredJobs, showAdvanced>>
  /\ UNCHANGED restVars

\* ---- skill matching over every pair of bounded skill lists
InitSkill ==
  /\ user = TRUE
  /\ profile \in {Null} \cup
       {Some([role |-> "job_seeker", skills |-> s]) : s \in OptSkillLists}
  /\ jobs \in {<<SkillJob(1, r)>> : r \in OptSkillLists}
  /\ filters = EmptyFilters
  /\ applications = {}
  /\ inflight = <<>>
  /\ cards = Null
  /\ lastApply = Null
  /\ filteredJobs = filterJobs(jobs, filters)
  /\ showAdvanced = FALSE
  /\ RestIdle

NextSkill == Render

SpecSkill == InitSkill /\ [][NextSkill]_vars


\* ---- the apply flow of the Jobs page
\* required-skill columns of the loaded jobs: absent, empty, one skill in
\* another case than the pool's, two skills
ReqCatalog == {Null, Some(<<>>), Some(<<JS>>), Some(<<js, sq>>)}
ApplySkillLists == UNION {[1..n -> {js, sq}] : n \in 0..MaxSkills}
JobIds == 1..MaxJobs

InitApply ==
  /\ user \in BOOLEAN
  /\ profile \in {Null} \cup
       {Some([role |-> "job_seeker", skills |-> s]) :
          s \in {Null} \cup {Some(l) : l \in ApplySkillLists}}
  /\ user = FALSE => profile = Null
  /\ \E n \in 0..MaxJobs :
       jobs \in {[i \in 1..n |-> SkillJob(i, r[i])] : r \in [1..n -> ReqCatalog]}
  /\ filters = EmptyFilters
  /\ applications = {}
  /\ inflight = <<>>
  /\ cards = Null
  /\ lastApply = Null
  /\ filteredJobs = filterJobs(jobs, filters)
  /\ showAdvanced = FALSE
  /\ RestIdle

NextApply ==
  \/ \E jobId \in JobIds : ApplyToJob(jobId)
  \/ \E k \in 1..MaxInflight : InsertSucceeds(k)
  \/ \E k \in 1..MaxInflight : InsertFails(k)

SpecApply == InitApply /\ [][NextApply]_vars

\* ---- the job filter of the Jobs page
\* String.prototype.trim, blanks being the only white space of the model
trim(s) ==
  IF \A k \in 1..Len(s) : IsSpace(s[k]) THEN <<>>
  ELSE LET a == CHOOSE k \in 1..Len(s) :
                  ~ IsSpace(s[k]) /\ \A m \in 1..(k - 1) : IsSpace(s[m])
           b == CHOOSE k \in 1..Len(s) :
                  ~ IsSpace(s[k]) /\ \A m \in (k + 1)..Len(s) : IsSpace(s[m])
       IN  SubSeq(s, a, b)

FilterKeys == {"search", "location", "jobType", "salaryMin", "salaryMax"}

\* getActiveFiltersCount() of the filter panel
getActiveFiltersCount(f) ==
  Cardinality({key \in FilterKeys : Truthy(f[key]) /\ Truthy(trim(f[key]))})
hasActiveFilters(f) == getActiveFiltersCount(f) > 0

\* updateFilter(key, value) of an input of the panel, and the re-render that
\* follows the state update; only the search input is outside the advanced
\* block
UpdateFilter(key, value) ==
  /\ key # "search" => showAdvanced
  /\ filters' = [filters EXCEPT ![key] = value]
  /\ filteredJobs' = filterJobs(jobs, filters')
  /\ UNCHANGED <<user, profile, jobs, applications, inflight, cards,
                 lastApply, showAdvanced>>
  /\ UNCHANGED restVars

\* variant: the reset leaves the search text in place
ClearFilters_keepsSearch ==
  /\ hasActiveFilters(filters)
  /\ filters' = [search |-> filters.search, location |-> <<>>,
                 jobType |-> <<>>, salaryMin |-> <<>>, salaryMax |-> <<>>]
  /\ filteredJobs' = filterJobs(jobs, filters')
  /\ UNCHANGED <<user, profile, jobs, applications, inflight, cards,
                 lastApply, showAdvanced>>
  /\ UNCHANGED restVars

\* clearFilters, behind the Clear button, which is rendered while
\* hasActiveFilters
ClearFilters ==
  /\ hasActiveFilters(filters)
  /\ filters' = [search |-> <<>>, location |-> <<>>, jobType |-> <<>>,
                 salaryMin |-> <<>>, salaryMax |-> <<>>]
  /\ filteredJobs' = filterJobs(jobs, filters')
  /\ UNCHANGED <<user, profile, jobs, applications, inflight, cards,
                 lastApply, showAdvanced>>
  /\ UNCHANGED restVars

\* the Advanced / Simple button
ToggleAdvanced ==
  /\ showAdvanced' = ~ showAdvanced
  /\ UNCHANGED <<user, profile, jobs, filters, applications, inflight, cards,
                 lastApply, filteredJobs>>
  /\ UNCHANGED restVars

FullTime == <<"F","u","l","l","-","t","i","m","e">>
fullTime == <<"f","u","l","l","-","t","i","m","e">>
PartTime == <<"P","a","r","t","-","t","i","m","e">>
\* a free-text job type of the posting form that contains an option's text
FullTimePlus == FullTime \o <<"+">>

\* job rows as fetchJobs may load them: present and absent location, job
\* type and salary bounds, a salary of 0, texts in mixed case
FilterCatalog ==
  {[id |-> 1, title |-> <<"D","e","v">>, company_name |-> <<"A","c","m","e">>,
    description |-> <<"g","o">>, location |-> Null,
    job_type |-> Some(FullTime), salary_min |-> Some(1),
    salary_max |-> Some(2), required_skills |-> Some(<<js>>)],
   [id |-> 2, title |-> <<"Q","A">>, company_name |-> <<"B","o","l","t">>,
    description |-> <<"d","e","v"," ","o","p","s">>,
    location |-> Some(<<"N","Y">>), job_type |-> Some(fullTime),
    salary_min |-> Some(2), salary_max |-> Null,
    required_skills |-> Some(<<>>)],
   [id |-> 3, title |-> <<"O","p","s">>, company_name |-> <<"A","c","m","e">>,
    description |-> <<"n","y">>, location |-> Some(<<"L","A">>),
    job_type |-> Null, salary_min |-> Null, salary_max |-> Some(1),
    required_skills |-> Null],
   [id |-> 4, title |-> <<"d","e","v">>, company_name |-> <<"C","o","g">>,
    description |-> <<"q","a">>, location |-> Some(<<"n","y"," ","c">>),
    job_type |-> Some(FullTimePlus), salary_min |-> Some(0),
    salary_max |-> Some(0), required_skills |-> Some(<<js, sq>>)]}

\* the values typed or selected in the panel
SearchValues == {<<>>, <<" ">>, <<"d","e","v">>, <<"A","C">>}
LocationValues == {<<>>, <<" ">>, <<"n","y">>}
JobTypeValues == {<<>>, FullTime, PartTime}
SalaryMinValues == {<<>>, <<"1">>, <<"2">>}
SalaryMaxValues == {<<>>, <<"0">>, <<"1">>, <<"-","1">>}
FilterValues(key) ==
  CASE key = "search" -> SearchValues
    [] key = "location" -> LocationValues
    [] key = "jobType" -> JobTypeValues
    [] key = "salaryMin" -> SalaryMinValues
    [] OTHER -> SalaryMaxValues

\* the lists of distinct catalog rows, in any order
ListedJobs ==
  UNION {{l \in [1..n -> FilterCatalog] :
            \A i \in 1..n : \A k \in 1..n : l[i] = l[k] => i = k} :
         n \in 0..MaxListed}

InitFilter ==
  /\ user = TRUE
  /\ profile = Some([role |-> "job_seeker", skills |-> Some(<<js>>)])
  /\ jobs \in ListedJobs
  /\ filters = EmptyFilters
  /\ applications = {}
  /\ inflight = <<>>
  /\ cards = Null
  /\ lastApply = Null
  /\ filteredJobs = filterJobs(jobs, filters)
  /\ showAdvanced = FALSE
  /\ RestIdle

NextFilter ==
  \/ \E key \in FilterKeys : \E value \in FilterValues(key) :
       UpdateFilter(key, value)
  \/ ClearFilters
  \/ ToggleAdvanced

SpecFilter == InitFilter /\ [][NextFilter]_vars

\* ---- application status on the employer screens
Statuses == {"pending", "reviewed", "accepted", "rejected"}
\* new Date().toISOString(): the instant is not told apart
Now == <<"t">>

\* an application row as applyToJob inserts it
NewApplication(id) == [id |-> id, status |-> "pending", reviewed_at |-> Null]

\* variant: the new status is written into every row
SetStatus_everyRow(rows, applicationId, status, reviewed_at) ==
  [i \in 1..Len(rows) |->
     [rows[i] EXCEPT !.status = status, !.reviewed_at = reviewed_at]]

\* rows.map(app => app.id === applicationId ? {...app, status, reviewed_at}
\* : app), also the effect of update(...).eq('id', applicationId)
SetStatus(rows, applicationId, status, reviewed_at) ==
  [i \in 1..Len(rows) |->
     IF rows[i].id = applicationId
     THEN [rows[i] EXCEPT !.status = status, !.reviewed_at = reviewed_at]
     ELSE rows[i]]

\* the items of the status Select of an application card of the manager
MgrSelectItems == {"pending", "reviewed", "accepted", "rejected"}
\* the status buttons of an application card of the dashboard
DashButtons(app) ==
  IF app.status = "pending" THEN {"accepted", "rejected", "reviewed"} ELSE {}

\* ApplicationsManager: an item of the Select is picked (onValueChange fires
\* for a value other than the shown one) and updateApplicationStatus sends
\* its update
MgrUpdateApplicationStatus(i, status) ==
  /\ i \in 1..Len(mgrApplications)
  /\ status \in MgrSelectItems \ {mgrApplications[i].status}
  /\ Len(statusUpdates) < MaxUpdates
  /\ statusUpdates' =
       Append(statusUpdates,
              [screen |-> "manager", id |-> mgrApplications[i].id,
               status |-> status, reviewed_at |-> Some(Now)])
  /\ UNCHANGED <<dbApplications, mgrApplications, dashApplications, mgrCards>>
  /\ UNCHANGED <<pageVars, calls, formVars>>

\* EmployerDashboard: a status button is clicked and updateApplicationStatus
\* sends its update
DashUpdateApplicationStatus(i, status) ==
  /\ i \in 1..Len(dashApplications)
  /\ status \in DashButtons(dashApplications[i])
  /\ Len(statusUpdates) < MaxUpdates
  /\ statusUpdates' =
       Append(statusUpdates,
              [screen |-> "dashboard", id |-> dashApplications[i].id,
               status |-> status,
               reviewed_at |-> IF status # "pending" THEN Some(Now) ELSE Null])
  /\ UNCHANGED <<dbApplications, mgrApplications, dashApplications, mgrCards>>
  /\ UNCHANGED <<pageVars, calls, formVars>>

\* the store applies an update of the manager and answers without error:
\* the manager rewrites its own copy of the row
MgrUpdateSucceeds(k) ==
  /\ k \in 1..Len(statusUpdates)
  /\ statusUpdates[k].screen = "manager"
  /\ LET u == statusUpdates[k]
     IN  /\ dbApplications' =
               SetStatus(dbApplications, u.id, u.status, u.reviewed_at)
         /\ mgrApplications' = SetStatus(mgrApplications, u.id, u.status, Some(Now))
  /\ statusUpdates' = RemoveAt(statusUpdates, k)
  /\ UNCHANGED <<dashApplications, mgrCards>>
  /\ UNCHANGED <<pageVars, calls, formVars>>

\* the store applies an update of the dashboard and answers without error:
\* the dashboard reloads its list; a failed reload leaves the list as it is
DashUpdateSucceeds(k, reloaded) ==
  /\ k \in 1..Len(statusUpdates)
  /\ statusUpdates[k].screen = "dashboard"
  /\ LET u == statusUpdates[k]
     IN  dbApplications' =
           SetStatus(dbApplications, u.id, u.status, u.reviewed_at)
  /\ dashApplications' = IF reloaded THEN dbApplications' ELSE dashApplications
  /\ statusUpdates' = RemoveAt(statusUpdates, k)
  /\ UNCHANGED <<mgrApplications, mgrCards>>
  /\ UNCHANGED <<pageVars, calls, formVars>>

\* an update answers with an error: a toast, nothing else
UpdateFails(k) ==
  /\ k \in 1..Len(statusUpdates)
  /\ statusUpdates' = RemoveAt(statusUpdates, k)
  /\ UNCHANGED <<dbApplications, mgrApplications, dashApplications, mgrCards>>
  /\ UNCHANGED <<pageVars, calls, formVars>>

\* the Jobs page is not mounted
PageIdle ==
  /\ user = TRUE
  /\ profile = Null
  /\ jobs = <<>>
  /\ filters = EmptyFilters
  /\ applications = {}
  /\ inflight = <<>>
  /\ cards = Null
  /\ lastApply = Null
  /\ filteredJobs = <<>>
  /\ showAdvanced = FALSE

\* both employer screens have loaded the pending applications
InitStatus ==
  /\ PageIdle
  /\ calls = <<>>
  /\ FormsIdle
  /\ \E n \in 1..MaxApps :
       dbApplications = [i \in 1..n |-> NewApplication(i)]
  /\ mgrApplications = dbApplications
  /\ dashApplications = dbApplications
  /\ statusUpdates = <<>>
  /\ mgrCards = Null

NextStatus ==
  \/ \E i \in 1..MaxApps : \E status \in Statuses :
       MgrUpdateApplicationStatus(i, status)
  \/ \E i \in 1..MaxApps : \E status \in Statuses :
       DashUpdateApplicationStatus(i, status)
  \/ \E k \in 1..MaxUpdates : MgrUpdateSucceeds(k)
  \/ \E k \in 1..MaxUpdates : \E reloaded \in BOOLEAN :
       DashUpdateSucceeds(k, reloaded)
  \/ \E k \in 1..MaxUpdates : UpdateFails(k)

SpecStatus == InitStatus /\ [][NextStatus]_vars

\* ---- the application cards of the manager
\* the value of a parameter no argument was passed for
Undefined == <<<<>>, <<>>>>
\* obj?.field
OptionalChain(obj, field) == IF IsNull(obj) THEN Undefined ELSE Val(obj)[field]
\* a parameter declared `= []`: the default stands in for undefined only
DefaultParam(arg, default) == IF arg = Undefined THEN Some(default) ELSE arg

\* how a call ends
Returns(value) == [threw |-> FALSE, value |-> value]
Throws == [threw |-> TRUE, value |-> <<>>]

\* getMatchingSkills of the manager: applicantSkills.filter(skill =>
\* requiredSkills.some(...)); a method call on null throws a TypeError
Mgr_getMatchingSkills(applicantSkillsArg, requiredSkillsArg) ==
  LET applicantSkills == DefaultParam(applicantSkillsArg, <<>>)
      requiredSkills == DefaultParam(requiredSkillsArg, <<>>)
  IN  IF IsNull(applicantSkills) THEN Throws
      ELSE IF Len(Val(applicantSkills)) > 0 /\ IsNull(requiredSkills)
           THEN Throws
      ELSE Returns(getMatchingSkills(Val(applicantSkills),
                                     Val(requiredSkills)))

\* getMissingSkills of the manager: requiredSkills.filter(required =>
\* !applicantSkills.some(...))
Mgr_getMissingSkills(applicantSkillsArg, requiredSkillsArg) ==
  LET applicantSkills == DefaultParam(applicantSkillsArg, <<>>)
      requiredSkills == DefaultParam(requiredSkillsArg, <<>>)
  IN  IF IsNull(requiredSkills) THEN Throws
      ELSE IF Len(Val(requiredSkills)) > 0 /\ IsNull(applicantSkills)
           THEN Throws
      ELSE Returns(getMissingSkills(Val(applicantSkills),
                                    Val(requiredSkills)))

\* the arguments the card of an application passes
ApplicantSkillsOf(application) == OptionalChain(application.applicant, "skills")
RequiredSkillsOf(application) == OptionalChain(application.job, "required_skills")

\* the two calls at the head of an application's card
MgrCard(application) ==
  LET matching == Mgr_getMatchingSkills(ApplicantSkillsOf(application),
                                        RequiredSkillsOf(application))
      missing == Mgr_getMissingSkills(ApplicantSkillsOf(application),
                                      RequiredSkillsOf(application))
  IN  [threw |-> matching.threw \/ missing.threw,
       matchingSkills |-> matching.value,
       missingSkills |-> IF matching.threw THEN <<>> ELSE missing.value]

\* one render of the manager's list: applications.map(...); an error thrown
\* by a card ends the render
MgrRender ==
  /\ Len(mgrApplications) > 0
  /\ LET all == [i \in 1..Len(mgrApplications) |-> MgrCard(mgrApplications[i])]
     IN  mgrCards' =
           IF \E i \in 1..Len(all) : all[i].threw
           THEN Some([threw |-> TRUE, cards |-> <<>>])
           ELSE Some([threw |-> FALSE, cards |-> all])
  /\ UNCHANGED <<dbApplications, mgrApplications, dashApplications,
                 statusUpdates>>
  /\ UNCHANGED <<pageVars, calls, formVars>>

\* the joined rows the manager loads
MgrApplicants ==
  {Null} \cup {Some([skills |-> s]) : s \in {Null, Some(<<>>), Some(<<JS, sq>>)}}
MgrJobs ==
  {Null} \cup
  {Some([required_skills |-> s]) : s \in {Null, Some(<<>>), Some(<<js>>)}}
MgrRows ==
  UNION {[1..n -> [applicant : MgrApplicants, job : MgrJobs]] :
           n \in 1..MaxApps}
JoinedApplication(id, row) ==
  [id |-> id, status |-> "pending", reviewed_at |-> Null,
   applicant |-> row.applicant, job |-> row.job]

\* the manager has loaded the employer's applications
InitManager ==
  /\ PageIdle
  /\ calls = <<>>
  /\ FormsIdle
  /\ \E rows \in MgrRows :
       mgrApplications =
         [i \in 1..Len(rows) |-> JoinedApplication(i, rows[i])]
  /\ dbApplications = mgrApplications
  /\ dashApplications = <<>>
  /\ statusUpdates = <<>>
  /\ mgrCards = Null

NextManager ==
  \/ MgrRender
  \/ \E i \in 1..MaxApps : \E status \in Statuses :
       MgrUpdateApplicationStatus(i, status)
  \/ \E k \in 1..MaxUpdates : MgrUpdateSucceeds(k)
  \/ \E k \in 1..MaxUpdates : UpdateFails(k)

SpecManager == InitManager /\ [][NextManager]_vars

\* ---- the skill and filter functions run by several callers, one callback
\* ---- at a time
IdleCall == [fn |-> "idle", job |-> 0, i |-> 0, out |-> <<>>, done |-> FALSE]
Functions == {"getMatchingSkills", "getMissingSkills", "filteredJobs"}

\* the arguments an invocation is given by the page (render, 233-237)
UserSkillsArg == OrElse(ProfileSkills(profile), <<>>)
RequiredSkillsArg(call) == OrElse(jobs[call.job].required_skills, <<>>)

\* the list the invocation's filter() walks over
Walked(call) ==
  CASE call.fn = "getMatchingSkills" -> UserSkillsArg
    [] call.fn = "getMissingSkills" -> RequiredSkillsArg(call)
    [] OTHER -> jobs

\* the callback of the invocation's filter() on one element
Keeps(call, x) ==
  CASE call.fn = "getMatchingSkills" ->
         some(RequiredSkillsArg(call),
              LAMBDA required : toLowerCase(required) = toLowerCase(x))
    [] call.fn = "getMissingSkills" ->
         ~ some(UserSkillsArg,
                LAMBDA skill : toLowerCase(skill) = toLowerCase(x))
    [] OTHER -> keepJob(x, filters)

\* variant: the callers of one function collect into one list they share
Accumulator_shared(cs, c) ==
  LET first == CHOOSE d \in DOMAIN cs :
                 /\ cs[d].fn = cs[c].fn
                 /\ \A e \in DOMAIN cs : cs[e].fn = cs[c].fn => d <= e
  IN  cs[first].out

\* the list filter() is building for this invocation: its own new array
Accumulator(cs, c) == cs[c].out

\* a caller invokes a function on the snapshot: filter() starts a new array
Invoke(c, fn, j) ==
  /\ calls[c] = IdleCall
  /\ j \in 1..Len(jobs)
  /\ fn = "filteredJobs" => j = 1
  /\ calls' = [calls EXCEPT ![c] = [IdleCall EXCEPT !.fn = fn, !.job = j]]
  /\ UNCHANGED <<pageVars, employerVars, formVars>>

\* filter() of one invocation handles its next element
CallbackStep(c) ==
  /\ calls[c].fn # "idle"
  /\ ~ calls[c].done
  /\ calls[c].i < Len(Walked(calls[c]))
  /\ LET x == Walked(calls[c])[calls[c].i + 1]
         acc == Accumulator(calls, c)
     IN  calls' = [calls EXCEPT
                     ![c].i = @ + 1,
                     ![c].out = IF Keeps(calls[c], x) THEN Append(acc, x)
                                ELSE acc]
  /\ UNCHANGED <<pageVars, employerVars, formVars>>

\* filter() has handled every element: the invocation returns its array
CallReturns(c) ==
  /\ calls[c].fn # "idle"
  /\ ~ calls[c].done
  /\ calls[c].i = Len(Walked(calls[c]))
  /\ calls' = [calls EXCEPT ![c].done = TRUE]
  /\ UNCHANGED <<pageVars, employerVars, formVars>>

\* the caller is through with the result
CallEnds(c) ==
  /\ calls[c].done
  /\ calls' = [calls EXCEPT ![c] = IdleCall]
  /\ UNCHANGED <<pageVars, employerVars, formVars>>

\* the snapshots the callers work on
PureSkillValues == {Null, Some(<<JS>>), Some(<<sq, js>>)}
PureCatalog == {job \in FilterCatalog : job.id \in {1, 4}}
PureJobs == UNION {[1..n -> PureCatalog] : n \in 1..MaxJobs}
PureFilters == {EmptyFilters, [EmptyFilters EXCEPT !.search = <<"A","C">>]}

InitPure ==
  /\ user = TRUE
  /\ \E skills \in PureSkillValues :
       profile = Some([role |-> "job_seeker", skills |-> skills])
  /\ jobs \in PureJobs
  /\ filters \in PureFilters
  /\ applications = {}
  /\ inflight = <<>>
  /\ cards = Null
  /\ lastApply = Null
  /\ filteredJobs = filterJobs(jobs, filters)
  /\ showAdvanced = FALSE
  /\ EmployerIdle
  /\ FormsIdle
  /\ calls = [c \in 1..MaxCallers |-> IdleCall]

NextPure ==
  \/ \E c \in 1..MaxCallers : \E fn \in Functions : \E j \in 1..MaxJobs :
       Invoke(c, fn, j)
  \/ \E c \in 1..MaxCallers : CallbackStep(c)
  \/ \E c \in 1..MaxCallers : CallReturns(c)
  \/ \E c \in 1..MaxCallers : CallEnds(c)

SpecPure == InitPure /\ [][NextPure]_vars

\* ---- the Apply button of the job cards
\* a click on the Apply button of a job card: the card is on the page, the
\* button is shown and not disabled, and its onClick runs applyToJob
ClickApply(jobId) ==
  /\ \E i \in 1..Len(filteredJobs) :
       /\ filteredJobs[i].id = jobId
       /\ ApplyButtonShown(user, profile)
       /\ ~ ApplyButtonDisabled(profile, applications, filteredJobs[i])
  /\ ApplyToJob(jobId)

NextClick ==
  \/ \E jobId \in JobIds : ClickApply(jobId)
  \/ \E k \in 1..MaxInflight : InsertSucceeds(k)
  \/ \E k \in 1..MaxInflight : InsertFails(k)

SpecClick == InitApply /\ [][NextClick]_vars

\* ---- status updates of the manager over a list of several applications
MgrListSizes == 2..(MaxApps + 1)

InitMgrUpdate ==
  /\ PageIdle
  /\ calls = <<>>
  /\ FormsIdle
  /\ \E n \in MgrListSizes :
       mgrApplications = [i \in 1..n |-> NewApplication(i)]
  /\ dbApplications = mgrApplications
  /\ dashApplications = <<>>
  /\ statusUpdates = <<>>
  /\ mgrCards = Null

NextMgrUpdate ==
  \/ \E i \in 1..(MaxApps + 1) : \E status \in Statuses :
       MgrUpdateApplicationStatus(i, status)
  \/ \E k \in 1..MaxUpdates : MgrUpdateSucceeds(k)
  \/ \E k \in 1..MaxUpdates : UpdateFails(k)

SpecMgrUpdate == InitMgrUpdate /\ [][NextMgrUpdate]_vars

\* ---- the skills manager of the job seeker's profile
\* variant: the typed text is looked up as typed, before trimming
AlreadyListed_untrimmed(list, typed) == arrayIncludes(list, typed)

\* skills.includes(trimmedSkill)
AlreadyListed(list, typed) == arrayIncludes(list, trim(typed))

\* the input's onChange; the input is disabled while a reply is awaited
SmSetNewSkill(value) ==
  /\ ~ sm_isLoading
  /\ sm_newSkill' = value
  /\ UNCHANGED <<sm_skills, sm_isLoading, sm_update, sm_dbSkills>>
  /\ UNCHANGED <<coreVars, postingVars, ratingVars>>

\* addSkill, from the Add button or the Enter key of the input, up to its
\* await: blank text and a listed skill return early, otherwise the skill is
\* appended to the local list and the profile update is sent
SmAddSkill ==
  /\ ~ sm_isLoading
  /\ IF ~ Truthy(trim(sm_newSkill)) \/ AlreadyListed(sm_skills, sm_newSkill)
     THEN UNCHANGED <<sm_skills, sm_newSkill, sm_isLoading, sm_update>>
     ELSE LET updatedSkills == Append(sm_skills, trim(sm_newSkill))
          IN  /\ sm_skills' = updatedSkills
              /\ sm_newSkill' = <<>>
              /\ sm_isLoading' = TRUE
              /\ sm_update' = Some([updated |-> updatedSkills,
                                    previous |-> sm_skills])
  /\ UNCHANGED sm_dbSkills
  /\ UNCHANGED <<coreVars, postingVars, ratingVars>>

\* removeSkill(skillToRemove), from the x button of a skill badge, up to its
\* await
SmRemoveSkill(skillToRemove) ==
  /\ ~ sm_isLoading
  /\ arrayIncludes(sm_skills, skillToRemove)
  /\ LET updatedSkills ==
           filter(sm_skills, LAMBDA skill : skill # skillToRemove)
     IN  /\ sm_skills' = updatedSkills
         /\ sm_isLoading' = TRUE
         /\ sm_update' = Some([updated |-> updatedSkills,
                               previous |-> sm_skills])
  /\ UNCHANGED <<sm_newSkill, sm_dbSkills>>
  /\ UNCHANGED <<coreVars, postingVars, ratingVars>>

\* the skills column after updateProfile({ skills }) of the auth hook has
\* resolved: the list it was given (a call that throws stores nothing)
updateProfile(updatedSkills) == Some(updatedSkills)

\* updateProfile resolves: the profile holds the list that was sent
SmUpdateResolves ==
  /\ ~ IsNull(sm_update)
  /\ sm_dbSkills' = updateProfile(Val(sm_update).updated)
  /\ sm_isLoading' = FALSE
  /\ sm_update' = Null
  /\ UNCHANGED <<sm_skills, sm_newSkill>>
  /\ UNCHANGED <<coreVars, postingVars, ratingVars>>

\* variant: the catch branch leaves the local list as the operation set it
RevertedSkills_kept(update) == update.updated

\* setSkills(skills) of the catch branch: the list the handler started from
RevertedSkills(update) == update.previous

\* updateProfile throws: the local list is put back, the profile is as before
SmUpdateThrows ==
  /\ ~ IsNull(sm_update)
  /\ sm_skills' = RevertedSkills(Val(sm_update))
  /\ sm_isLoading' = FALSE
  /\ sm_update' = Null
  /\ UNCHANGED <<sm_newSkill, sm_dbSkills>>
  /\ UNCHANGED <<coreVars, postingVars, ratingVars>>

\* the texts typed into the input
TypedSkills == {<<>>, <<" ">>, js, <<" ">> \o js \o <<" ">>, JS, Js, sq}
\* stored skill lists without a repeated string
UniqueSkillLists ==
  {l \in UNION {[1..n -> {js, JS, sq}] : n \in 0..MaxSkills} :
     \A i, k \in 1..Len(l) : l[i] = l[k] => i = k}

\* the manager is mounted and has taken the skills of the loaded profile
InitSkillsMgr ==
  /\ PageIdle
  /\ EmployerIdle
  /\ calls = <<>>
  /\ PostingIdle
  /\ RatingIdle
  /\ sm_dbSkills \in {Null} \cup {Some(l) : l \in UniqueSkillLists}
  /\ sm_skills = OrElse(sm_dbSkills, <<>>)
  /\ sm_newSkill = <<>>
  /\ sm_isLoading = FALSE
  /\ sm_update = Null

NextSkillsMgr ==
  \/ \E value \in TypedSkills : SmSetNewSkill(value)
  \/ SmAddSkill
  \/ \E skillToRemove \in {js, JS, Js, sq} : SmRemoveSkill(skillToRemove)
  \/ SmUpdateResolves
  \/ SmUpdateThrows

SpecSkillsMgr == InitSkillsMgr /\ [][NextSkillsMgr]_vars

\* ---- job postings: the posting form and the create dialog
\* the skill input's onChange
FormSetNewSkill(value) ==
  /\ ~ form_onSuccess
  /\ form_newSkill' = value
  /\ UNCHANGED <<form_job, form_requiredSkills, form_isLoading,
                 form_onSuccess, dash_newJob, jobSaves, dbJobs>>
  /\ UNCHANGED <<coreVars, skillsMgrVars, ratingVars>>

\* addSkill of the form, from its Add button or the Enter key
FormAddSkill ==
  /\ ~ form_onSuccess
  /\ IF ~ Truthy(trim(form_newSkill))
        \/ arrayIncludes(form_requiredSkills, trim(form_newSkill))
     THEN UNCHANGED <<form_requiredSkills, form_newSkill>>
     ELSE /\ form_requiredSkills' =
               Append(form_requiredSkills, trim(form_newSkill))
          /\ form_newSkill' = <<>>
  /\ UNCHANGED <<form_job, form_isLoading, form_onSuccess, dash_newJob,
                 jobSaves, dbJobs>>
  /\ UNCHANGED <<coreVars, skillsMgrVars, ratingVars>>

\* removeSkill of the form, from the x button of a skill badge
FormRemoveSkill(skillToRemove) ==
  /\ ~ form_onSuccess
  /\ arrayIncludes(form_requiredSkills, skillToRemove)
  /\ form_requiredSkills' =
       filter(form_requiredSkills, LAMBDA skill : skill # skillToRemove)
  /\ UNCHANGED <<form_job, form_newSkill, form_isLoading, form_onSuccess,
                 dash_newJob, jobSaves, dbJobs>>
  /\ UNCHANGED <<coreVars, skillsMgrVars, ratingVars>>

\* handleSubmit up to its await: no user and an empty skill list return
\* early, otherwise the update (a posting is edited) or the insert is sent
FormHandleSubmit ==
  /\ ~ form_onSuccess
  /\ ~ form_isLoading
  /\ IF ~ user \/ Len(form_requiredSkills) = 0
     THEN UNCHANGED <<form_isLoading, jobSaves>>
     ELSE /\ Len(dbJobs) + Len(jobSaves) < MaxPostings
          /\ form_isLoading' = TRUE
          /\ jobSaves' =
               Append(jobSaves,
                      [via |-> "form", target |-> form_job,
                       required_skills |-> Some(form_requiredSkills)])
  /\ UNCHANGED <<form_job, form_requiredSkills, form_newSkill,
                 form_onSuccess, dash_newJob, dbJobs>>
  /\ UNCHANGED <<coreVars, skillsMgrVars, ratingVars>>

\* a field of the dashboard's create dialog is edited
DashSetNewJob(field, value) ==
  /\ dash_newJob' = [dash_newJob EXCEPT ![field] = value]
  /\ UNCHANGED <<form_job, form_requiredSkills, form_newSkill,
                 form_isLoading, form_onSuccess, jobSaves, dbJobs>>
  /\ UNCHANGED <<coreVars, skillsMgrVars, ratingVars>>

\* createJob of the dashboard up to its await, from the dialog's button
\* (disabled without title or description): the insert carries no
\* required_skills
DashCreateJob ==
  /\ Truthy(dash_newJob.title) /\ Truthy(dash_newJob.description)
  /\ user
  /\ Len(dbJobs) + Len(jobSaves) < MaxPostings
  /\ jobSaves' =
       Append(jobSaves,
              [via |-> "dashboard", target |-> Null, required_skills |-> Null])
  /\ UNCHANGED <<form_job, form_requiredSkills, form_newSkill,
                 form_isLoading, form_onSuccess, dash_newJob, dbJobs>>
  /\ UNCHANGED <<coreVars, skillsMgrVars, ratingVars>>

\* the store after a save: a new row, or the edited row rewritten
SavedJobs(rows, save) ==
  IF IsNull(save.target)
  THEN Append(rows, [required_skills |-> save.required_skills])
  ELSE [rows EXCEPT ![Val(save.target)].required_skills = save.required_skills]

\* a save answers without error: the form calls onSuccess, the dashboard
\* empties its dialog
JobSaveSucceeds(k) ==
  /\ k \in 1..Len(jobSaves)
  /\ dbJobs' = SavedJobs(dbJobs, jobSaves[k])
  /\ jobSaves' = RemoveAt(jobSaves, k)
  /\ IF jobSaves[k].via = "form"
     THEN /\ form_isLoading' = FALSE
          /\ form_onSuccess' = TRUE
          /\ UNCHANGED dash_newJob
     ELSE /\ dash_newJob' = EmptyNewJob
          /\ UNCHANGED <<form_isLoading, form_onSuccess>>
  /\ UNCHANGED <<form_job, form_requiredSkills, form_newSkill>>
  /\ UNCHANGED <<coreVars, skillsMgrVars, ratingVars>>

\* a save answers with an error: a toast; the form is ready again
JobSaveFails(k) ==
  /\ k \in 1..Len(jobSaves)
  /\ jobSaves' = RemoveAt(jobSaves, k)
  /\ form_isLoading' =
       IF jobSaves[k].via = "form" THEN FALSE ELSE form_isLoading
  /\ UNCHANGED <<form_job, form_requiredSkills, form_newSkill,
                 form_onSuccess, dash_newJob, dbJobs>>
  /\ UNCHANGED <<coreVars, skillsMgrVars, ratingVars>>

\* the texts typed into the form's skill input and the dialog's fields
FormTypedSkills == {<<>>, js, <<" ">> \o sq}
NewJobTexts == {<<>>, <<"x">>}

\* the form is open, for a new posting or for the stored one
InitPosting ==
  /\ PageIdle
  /\ EmployerIdle
  /\ calls = <<>>
  /\ SkillsMgrIdle
  /\ RatingIdle
  /\ dbJobs \in {<<>>, <<[required_skills |-> Some(<<js>>)]>>}
  /\ form_job \in {Null} \cup {Some(i) : i \in 1..Len(dbJobs)}
  /\ form_requiredSkills =
       IF IsNull(form_job) THEN <<>>
       ELSE OrElse(dbJobs[Val(form_job)].required_skills, <<>>)
  /\ form_newSkill = <<>>
  /\ form_isLoading = FALSE
  /\ form_onSuccess = FALSE
  /\ dash_newJob = EmptyNewJob
  /\ jobSaves = <<>>

NextPosting ==
  \/ \E value \in FormTypedSkills : FormSetNewSkill(value)
  \/ FormAddSkill
  \/ \E skillToRemove \in {js, sq} : FormRemoveSkill(skillToRemove)
  \/ FormHandleSubmit
  \/ \E field \in {"title", "description"} : \E value \in NewJobTexts :
       DashSetNewJob(field, value)
  \/ DashCreateJob
  \/ \E k \in 1..MaxPostings : JobSaveSucceeds(k)
  \/ \E k \in 1..MaxPostings : JobSaveFails(k)

SpecPosting == InitPosting /\ [][NextPosting]_vars

\* ---- the rating dialog of the dashboard
\* the stars of the dialog
Stars == 1..5

\* variant: a submit without stars is let through
RatingMissing_never(rating) == FALSE

\* rating === 0
RatingMissing(rating) == rating = 0

\* review.trim() || null
ReviewColumn(review) ==
  IF Truthy(trim(review)) THEN Some(trim(review)) ELSE Null

\* openRatingDialog of the dashboard
RdOpen ==
  /\ ~ rd_isOpen
  /\ rd_isOpen' = TRUE
  /\ UNCHANGED <<rd_rating, rd_review, rd_isLoading, rd_insert,
                 rd_submitted, dbRatings>>
  /\ UNCHANGED <<coreVars, skillsMgrVars, postingVars>>

\* a click on a star; the stars are disabled while an insert is awaited
RdSetRating(star) ==
  /\ rd_isOpen
  /\ ~ rd_isLoading
  /\ rd_rating' = star
  /\ UNCHANGED <<rd_isOpen, rd_review, rd_isLoading, rd_insert,
                 rd_submitted, dbRatings>>
  /\ UNCHANGED <<coreVars, skillsMgrVars, postingVars>>

\* the review's onChange; the textarea is disabled while an insert is awaited
RdSetReview(text) ==
  /\ rd_isOpen
  /\ ~ rd_isLoading
  /\ rd_review' = text
  /\ UNCHANGED <<rd_isOpen, rd_rating, rd_isLoading, rd_insert,
                 rd_submitted, dbRatings>>
  /\ UNCHANGED <<coreVars, skillsMgrVars, postingVars>>

\* handleSubmit up to its await: without stars a toast, otherwise the
\* record is sent
RdHandleSubmit ==
  /\ rd_isOpen
  /\ ~ rd_isLoading
  /\ IF RatingMissing(rd_rating)
     THEN UNCHANGED <<rd_isLoading, rd_insert>>
     ELSE /\ Len(dbRatings) < MaxRatings
          /\ rd_isLoading' = TRUE
          /\ rd_insert' = Some([rating |-> rd_rating,
                                review |-> ReviewColumn(rd_review)])
  /\ UNCHANGED <<rd_isOpen, rd_rating, rd_review, rd_submitted, dbRatings>>
  /\ UNCHANGED <<coreVars, skillsMgrVars, postingVars>>

\* handleClose: the Cancel button (disabled while an insert is awaited) or
\* the dialog's own onOpenChange (Escape, outside click, close button)
RdHandleClose ==
  /\ rd_isOpen
  /\ rd_rating' = 0
  /\ rd_review' = <<>>
  /\ rd_isOpen' = FALSE
  /\ UNCHANGED <<rd_isLoading, rd_insert, rd_submitted, dbRatings>>
  /\ UNCHANGED <<coreVars, skillsMgrVars, postingVars>>

\* the insert answers without error: the form is reset, onRatingSubmitted
\* and onClose are called
RdInsertSucceeds ==
  /\ ~ IsNull(rd_insert)
  /\ dbRatings' = Append(dbRatings, Val(rd_insert))
  /\ rd_rating' = 0
  /\ rd_review' = <<>>
  /\ rd_submitted' = rd_submitted + 1
  /\ rd_isOpen' = FALSE
  /\ rd_isLoading' = FALSE
  /\ rd_insert' = Null
  /\ UNCHANGED <<coreVars, skillsMgrVars, postingVars>>

\* the insert answers with an error: a toast, the loading flag is cleared
RdInsertFails ==
  /\ ~ IsNull(rd_insert)
  /\ rd_isLoading' = FALSE
  /\ rd_insert' = Null
  /\ UNCHANGED <<rd_isOpen, rd_rating, rd_review, rd_submitted, dbRatings>>
  /\ UNCHANGED <<coreVars, skillsMgrVars, postingVars>>

\* the texts typed into the review
ReviewTexts == {<<>>, <<" ">>, <<"o","k">>}

\* the dashboard is shown, the dialog closed
InitRating ==
  /\ PageIdle
  /\ EmployerIdle
  /\ calls = <<>>
  /\ SkillsMgrIdle
  /\ PostingIdle
  /\ RatingIdle

NextRating ==
  \/ RdOpen
  \/ \E star \in Stars : RdSetRating(star)
  \/ \E text \in ReviewTexts : RdSetReview(text)
  \/ RdHandleSubmit
  \/ RdHandleClose
  \/ RdInsertSucceeds
  \/ RdInsertFails

SpecRating == InitRating /\ [][NextRating]_vars

\* ------------------------------------------------ properties: vocabulary
Rendered == ~ IsNull(cards)
CardOf(i) == Val(cards)[i]
\* the lists the render hands to the skill functions for job i
Candidate == OrElse(ProfileSkills(profile), <<>>)
Required(i) == OrElse(jobs[i].required_skills, <<>>)

\* the k-th smallest index of the index set K
Nth(K, k) == CHOOSE i \in K : Cardinality({j \in K : j < i}) = k - 1
\* res is src restricted to the positions K, in src order
IsRestriction(res, src, K) ==
  /\ Len(res) = Cardinality(K)
  /\ \A k \in 1..Len(res) : res[k] = src[Nth(K, k)]
Count(xs, x) == Cardinality({i \in 1..Len(xs) : xs[i] = x})
Elems(xs) == {xs[i] : i \in 1..Len(xs)}

\* case-fold equality of two skills
FoldEq(a, r) == toLowerCase(a) = toLowerCase(r)
\* required positions with no case-fold equal candidate skill
MissingPositions(A, B) ==
  {i \in 1..Len(B) : \A j \in 1..Len(A) : ~ FoldEq(A[j], B[i])}
\* candidate positions with some case-fold equal required skill
MatchingPositions(A, B) ==
  {i \in 1..Len(A) : \E j \in 1..Len(B) : FoldEq(B[j], A[i])}

\* C1: getMissingSkills(A, B) is B restricted, in order, to the required
\* skills with no case-fold equal candidate skill; so it is no longer than B
\* and each of its elements is an element of B.
C1_MissingIsRequiredSubsequence ==
  Rendered =>
    \A i \in 1..Len(jobs) :
      LET res == CardOf(i).missingSkills
      IN  /\ IsRestriction(res, Required(i),
                           MissingPositions(Candidate, Required(i)))
          /\ Len(res) <= Len(Required(i))
          /\ Elems(res) \subseteq Elems(Required(i))

\* a render where one required skill is matched by a candidate skill of
\* another spelling and dropped, and a later required skill is kept
C1_Witness ==
  /\ Rendered
  /\ Len(Required(1)) = 2
  /\ CardOf(1).missingSkills = <<Required(1)[2]>>
  /\ Candidate # <<>>
  /\ Required(1)[1] \notin Elems(Candidate)

\* C2: getMatchingSkills(A, B) is A restricted, in order, to the candidate
\* skills with some case-fold equal required skill, in the candidate's
\* spelling.
C2_MatchingIsCandidateSubsequence ==
  Rendered =>
    \A i \in 1..Len(jobs) :
      LET res == CardOf(i).matchingSkills
      IN  /\ IsRestriction(res, Candidate,
                           MatchingPositions(Candidate, Required(i)))
          /\ Elems(res) \subseteq Elems(Candidate)

\* a render where the kept candidate skill is spelled unlike every required
\* skill, and an earlier candidate skill is dropped
C2_Witness ==
  /\ Rendered
  /\ Len(Candidate) = 2
  /\ CardOf(1).matchingSkills = <<Candidate[2]>>
  /\ Required(1) # <<>>
  /\ Candidate[2] \notin Elems(Required(1))


\* C3: canApplyToJob is true iff getMissingSkills is empty, a null candidate
\* or required list counting as the empty list.
C3_CanApplyIffNoMissing ==
  Rendered =>
    \A i \in 1..Len(jobs) :
      CardOf(i).canApply <=> (Len(CardOf(i).missingSkills) = 0)

\* C5: against an empty required list every candidate list, the empty one
\* included, is eligible and has no missing skill.
C5_EmptyRequiredAlwaysEligible ==
  Rendered =>
    \A i \in 1..Len(jobs) :
      (Required(i) = <<>>) =>
        /\ CardOf(i).canApply
        /\ CardOf(i).missingSkills = <<>>

\* a render of a job without required skills for a seeker whose skill list
\* is empty
C5_Witness ==
  /\ Rendered
  /\ jobs[1].required_skills = Some(<<>>)
  /\ ProfileSkills(profile) = Some(<<>>)
  /\ CardOf(1).canApply

\* C6 as stated: no string occurs twice in the result of getMatchingSkills.
C6_NoStringTwice ==
  Rendered =>
    \A i \in 1..Len(jobs) :
      \A s \in SkillPool : Count(CardOf(i).matchingSkills, s) <= 1

\* C6 amended: a string occurs in the result of getMatchingSkills at most as
\* often as in the candidate list, however many required skills share its
\* case-folded form; a candidate list without repeats gives a result
\* without repeats.
C6_NoMoreCopiesThanCandidate ==
  Rendered =>
    \A i \in 1..Len(jobs) :
      /\ \A s \in SkillPool :
           Count(CardOf(i).matchingSkills, s) <= Count(Candidate, s)
      /\ (\A s \in SkillPool : Count(Candidate, s) <= 1) =>
           (\A s \in SkillPool : Count(CardOf(i).matchingSkills, s) <= 1)

\* a render where two required skills share the case-folded form of a
\* candidate skill, which is reported once
C6_Witness ==
  /\ Rendered
  /\ Len(Required(1)) = 2
  /\ FoldEq(Required(1)[1], Required(1)[2])
  /\ Len(Candidate) = 1
  /\ CardOf(1).matchingSkills = Candidate

\* what one candidate position alone contributes
Piece(A, B, k) == getMatchingSkills(<<A[k]>>, B)

\* C7: getMatchingSkills is positional: every candidate position contributes
\* zero or one element whatever the other positions hold, so a matching
\* skill present k times is reported k times.
C7_MatchingIsPositional ==
  Rendered =>
    \A i \in 1..Len(jobs) :
      LET A == Candidate
          B == Required(i)
          res == CardOf(i).matchingSkills
      IN  /\ \A k \in 1..Len(A) : Len(Piece(A, B, k)) <= 1
          /\ Len(res) = Cardinality({k \in 1..Len(A) : Piece(A, B, k) # <<>>})
          /\ \A s \in SkillPool :
               Count(res, s) =
                 Cardinality({k \in 1..Len(A) : Piece(A, B, k) = <<s>>})

\* a render where the candidate list repeats a matching skill and the
\* result repeats it too
C7_Witness ==
  /\ Rendered
  /\ Len(Candidate) = 2
  /\ Candidate[1] = Candidate[2]
  /\ CardOf(1).matchingSkills = Candidate

\* two characters that are equal or the two cases of one letter
CaseVariantChar(c, d) ==
  c = d \/ \E i \in 1..26 : {c, d} = {Upper[i], Lower[i]}
\* two strings that differ at most in letter case
CaseVariant(s, t) ==
  /\ Len(s) = Len(t)
  /\ \A i \in 1..Len(s) : CaseVariantChar(s[i], t[i])
KeptMatching(A, B) ==
  {k \in 1..Len(A) : getMatchingSkills(<<A[k]>>, B) # <<>>}
KeptMissing(A, B) ==
  {k \in 1..Len(B) : getMissingSkills(A, <<B[k]>>) # <<>>}

\* C8: skill equality is case-fold equality only: re-casing one skill of
\* either list changes no kept position of either function, and two skills
\* that differ otherwise (a blank, another letter) never match.
C8_CaseFoldEqualityOnly ==
  Rendered =>
    \A i \in 1..Len(jobs) :
      LET A == Candidate
          B == Required(i)
          card == CardOf(i)
      IN  /\ \A p \in 1..Len(A) : \A v \in SkillPool :
               CaseVariant(v, A[p]) =>
                 LET A2 == [A EXCEPT ![p] = v]
                 IN  /\ KeptMatching(A2, B) = KeptMatching(A, B)
                     /\ KeptMissing(A2, B) = KeptMissing(A, B)
                     /\ Len(getMatchingSkills(A2, B)) = Len(card.matchingSkills)
                     /\ getMissingSkills(A2, B) = card.missingSkills
          /\ \A p \in 1..Len(B) : \A v \in SkillPool :
               CaseVariant(v, B[p]) =>
                 LET B2 == [B EXCEPT ![p] = v]
                 IN  /\ KeptMatching(A, B2) = KeptMatching(A, B)
                     /\ KeptMissing(A, B2) = KeptMissing(A, B)
                     /\ getMatchingSkills(A, B2) = card.matchingSkills
                     /\ Len(getMissingSkills(A, B2)) = Len(card.missingSkills)
          /\ \A a \in Elems(A) : \A r \in Elems(B) :
               ~ CaseVariant(a, r) =>
                 /\ getMatchingSkills(<<a>>, <<r>>) = <<>>
                 /\ getMissingSkills(<<a>>, <<r>>) = <<r>>

\* a render where a candidate skill matches a required skill of another
\* case, and a required skill that differs from it by a blank is missing
C8_Witness ==
  /\ Rendered
  /\ Candidate = <<js>>
  /\ Required(1) = <<JS, J_s>>
  /\ CardOf(1).matchingSkills = <<js>>
  /\ CardOf(1).missingSkills = <<J_s>>


\* the last applyToJob call was made by a signed-in seeker with a profile
\* for a job of the loaded list
AppliedToLoadedJob ==
  /\ ~ IsNull(lastApply)
  /\ Val(lastApply).did \notin {"return_no_user", "return_no_job"}
LastJob == FindJob(jobs, Val(lastApply).jobId)
LastMissing == getMissingSkills(Candidate, Required(LastJob))

\* C4 as stated: applyToJob sends the insert exactly when no required skill
\* of the job is missing.
C4_InsertIffNoMissing ==
  AppliedToLoadedJob =>
    ((Val(lastApply).did = "insert") <=> (Len(LastMissing) = 0))

\* C4 amended: applyToJob sends the insert exactly when the seeker's skill
\* list is non-empty and no required skill of the job is missing; it never
\* inserts when a required skill is missing, and the Apply button of a job
\* not yet applied to is enabled under the same condition.
C4_InsertIffSkilledAndNoMissing ==
  /\ AppliedToLoadedJob =>
       /\ (Val(lastApply).did = "insert") <=>
            (Len(Candidate) > 0 /\ Len(LastMissing) = 0)
       /\ Len(LastMissing) > 0 => Val(lastApply).did # "insert"
  /\ ApplyButtonShown(user, profile) =>
       \A i \in 1..Len(jobs) :
         jobs[i].id \notin applications =>
           (~ ApplyButtonDisabled(profile, applications, jobs[i]) <=>
              (Len(Candidate) > 0
                 /\ Len(getMissingSkills(Candidate, Required(i))) = 0))

\* an insert sent for a job whose two required skills the seeker has, one
\* of them in another case
C4_Witness ==
  /\ AppliedToLoadedJob
  /\ Val(lastApply).did = "insert"
  /\ Len(Required(LastJob)) = 2
  /\ Val(lastApply).jobId \in Elems(inflight)


\* some criteria field is non-empty
Filtering == \E key \in FilterKeys : Truthy(filters[key])

\* C9: filteredJobs is a subsequence of the loaded list: every shown job is
\* a loaded job, none is shown twice, and two shown jobs stand in the order
\* they have in the loaded list.
C9_FilterKeepsOrder ==
  /\ \E K \in SUBSET (1..Len(jobs)) : IsRestriction(filteredJobs, jobs, K)
  /\ \A a \in 1..Len(filteredJobs) : \A b \in 1..Len(filteredJobs) :
       a < b =>
         \E i \in 1..Len(jobs) : \E k \in 1..Len(jobs) :
           i < k /\ jobs[i] = filteredJobs[a] /\ jobs[k] = filteredJobs[b]

\* criteria that drop the middle one of three loaded jobs and keep the
\* other two in their order
C9_Witness ==
  /\ Filtering
  /\ Len(jobs) = 3
  /\ filteredJobs = <<jobs[1], jobs[3]>>

\* the criteria with every field but one cleared
Only(f, key) == [k \in FilterKeys |-> IF k = key THEN f[k] ELSE <<>>]

\* C10: a job is retained iff it is retained by the search, the location,
\* the job-type, the salary-floor and the salary-ceiling criterion each
\* taken alone: the result is the intersection of the one-axis results.
C10_FilterIsConjunctionOfAxes ==
  \A i \in 1..Len(jobs) :
    (jobs[i] \in Elems(filteredJobs)) <=>
      (\A key \in FilterKeys :
         jobs[i] \in Elems(filterJobs(jobs, Only(filters, key))))

\* two criteria are set; each alone keeps a job the other drops, and the
\* shown list is exactly the jobs both keep
C10_Witness ==
  /\ Len(filteredJobs) > 0
  /\ \E k1 \in FilterKeys : \E k2 \in FilterKeys \ {k1} :
       LET r1 == Elems(filterJobs(jobs, Only(filters, k1)))
           r2 == Elems(filterJobs(jobs, Only(filters, k2)))
       IN  /\ r1 \ r2 # {}
           /\ r2 \ r1 # {}
           /\ Elems(filteredJobs) = r1 \cap r2


\* the jobs a single criterion keeps
KeptBy(key) == Elems(filterJobs(jobs, Only(filters, key)))

\* C11: with criteria.salaryMin set, the floor rule excludes a job iff its
\* salaryMax is present and strictly below the criterion, whatever integer
\* the salaryMax is, 0 included.
C11_SalaryFloorRule ==
  Truthy(filters.salaryMin) =>
    \A i \in 1..Len(jobs) :
      (jobs[i] \notin KeptBy("salaryMin")) <=>
        (~ IsNull(jobs[i].salary_max)
           /\ NumGt(parseInt(filters.salaryMin), Val(jobs[i].salary_max)))

\* C12: with criteria.salaryMax set, the ceiling rule excludes a job iff its
\* salaryMin is present and strictly above the criterion, whatever integers
\* the salaryMin and the criterion are, 0 included.
C12_SalaryCeilingRule ==
  Truthy(filters.salaryMax) =>
    \A i \in 1..Len(jobs) :
      (jobs[i] \notin KeptBy("salaryMax")) <=>
        (~ IsNull(jobs[i].salary_min)
           /\ NumLt(parseInt(filters.salaryMax), Val(jobs[i].salary_min)))


\* sub occurs in s, letter case apart
ContainsFold(s, sub) ==
  \E k \in 0..(Len(s) - Len(sub)) :
    \A m \in 1..Len(sub) : CaseVariantChar(s[k + m], sub[m])
\* a criteria field that is empty or made of blanks only
Blank(s) == \A k \in 1..Len(s) : s[k] = " "

\* C13: with a non-blank search text a job passes the search iff the text
\* occurs, letter case apart, in its title, company name, description or
\* present location; an absent location fails its own sub-check only.
C13_SearchAxis ==
  ~ Blank(filters.search) =>
    \A i \in 1..Len(jobs) :
      (jobs[i] \in KeptBy("search")) <=>
        \/ ContainsFold(jobs[i].title, filters.search)
        \/ ContainsFold(jobs[i].company_name, filters.search)
        \/ ContainsFold(jobs[i].description, filters.search)
        \/ (~ IsNull(jobs[i].location)
              /\ ContainsFold(Val(jobs[i].location), filters.search))

\* a search text in capitals found in the company name only of a job
\* without location, which is shown, while another job is dropped
C13_Witness ==
  /\ ~ Blank(filters.search)
  /\ \E i \in 1..Len(jobs) :
       /\ IsNull(jobs[i].location)
       /\ ~ ContainsFold(jobs[i].title, filters.search)
       /\ ~ ContainsFold(jobs[i].description, filters.search)
       /\ ~ includes(jobs[i].company_name, filters.search)
       /\ jobs[i] \in Elems(filteredJobs)
  /\ \E i \in 1..Len(jobs) : jobs[i] \notin Elems(filteredJobs)

\* C14: with a non-blank location text a job passes iff its location is
\* present and contains the text, letter case apart; a job without location
\* is always excluded.
C14_LocationAxis ==
  ~ Blank(filters.location) =>
    \A i \in 1..Len(jobs) :
      /\ (jobs[i] \in KeptBy("location")) <=>
           (~ IsNull(jobs[i].location)
              /\ ContainsFold(Val(jobs[i].location), filters.location))
      /\ IsNull(jobs[i].location) => jobs[i] \notin Elems(filteredJobs)

\* a location text that keeps a job located in another case, drops a job
\* without location and drops a job located elsewhere
C14_Witness ==
  /\ ~ Blank(filters.location)
  /\ Len(jobs) = 3
  /\ \E i \in 1..3 :
       /\ jobs[i] \in Elems(filteredJobs)
       /\ ~ includes(Val(jobs[i].location), filters.location)
  /\ \E i \in 1..3 :
       IsNull(jobs[i].location) /\ jobs[i] \notin Elems(filteredJobs)
  /\ \E i \in 1..3 :
       ~ IsNull(jobs[i].location) /\ jobs[i] \notin Elems(filteredJobs)

\* two strings of the same characters
SameString(s, t) == Len(s) = Len(t) /\ \A k \in 1..Len(s) : s[k] = t[k]

\* C15: with a non-blank job type a job passes iff its job type is present
\* and is the very same string: no case folding, no substring match.
C15_JobTypeAxis ==
  ~ Blank(filters.jobType) =>
    \A i \in 1..Len(jobs) :
      (jobs[i] \in KeptBy("jobType")) <=>
        (~ IsNull(jobs[i].job_type)
           /\ SameString(Val(jobs[i].job_type), filters.jobType))

\* "Full-time" keeps a "Full-time" job and drops a "full-time" job and a
\* job whose type only contains "Full-time"
C15_Witness ==
  /\ filters.jobType = FullTime
  /\ Len(jobs) = 3
  /\ Len(filteredJobs) = 1
  /\ filteredJobs[1].job_type = Some(FullTime)
  /\ \E i \in 1..3 : jobs[i].job_type = Some(fullTime)
  /\ \E i \in 1..3 :
       ~ IsNull(jobs[i].job_type)
         /\ Val(jobs[i].job_type) # FullTime
         /\ includes(Val(jobs[i].job_type), FullTime)

\* C16: a blank criteria field (empty or blanks only) constrains nothing:
\* its axis keeps every job, and replacing it by another blank value leaves
\* the shown list as it is.
C16_BlankFieldNoConstraint ==
  \A key \in FilterKeys :
    Blank(filters[key]) =>
      /\ KeptBy(key) = Elems(jobs)
      /\ \A v \in FilterValues(key) :
           Blank(v) => filterJobs(jobs, [filters EXCEPT ![key] = v]) = filteredJobs

AllEmpty == \A key \in FilterKeys : filters[key] = <<>>

Rank(status) ==
  CASE status = "pending" -> 0
    [] status = "reviewed" -> 1
    [] OTHER -> 2
NoStepBack(rows, rowsAfter) ==
  \A i \in 1..Len(rows) :
    Rank(rowsAfter[i].status) >= Rank(rows[i].status)

\* C18: a status only moves along pending -> reviewed -> accepted/rejected:
\* no update takes an application from accepted or rejected back to pending
\* or reviewed, or from reviewed back to pending, in the store or on a
\* screen.
C18_StatusNeverMovesBack ==
  [][/\ NoStepBack(dbApplications, dbApplications')
     /\ NoStepBack(mgrApplications, mgrApplications')
     /\ NoStepBack(dashApplications, dashApplications')]_vars

\* the result of the invocation's function applied to its arguments alone
Alone(call) ==
  CASE call.fn = "getMatchingSkills" ->
         getMatchingSkills(UserSkillsArg, RequiredSkillsArg(call))
    [] call.fn = "getMissingSkills" ->
         getMissingSkills(UserSkillsArg, RequiredSkillsArg(call))
    [] OTHER -> filterJobs(jobs, filters)
Callers == DOMAIN calls

\* C19: skill matching and job filtering are pure: however the invocations
\* of several callers over one snapshot interleave, each returns what its
\* function returns when run alone on the same arguments, and no step of an
\* invocation changes the profile's skills, the job records or the criteria.
C19_PureUnderInterleaving ==
  /\ [](\A c \in Callers : calls[c].done => calls[c].out = Alone(calls[c]))
  /\ [][/\ profile' = profile
        /\ jobs' = jobs
        /\ filters' = filters]_vars
\* two callers of the same function, both past their first element, one
\* returned with a proper part of its input while the other is still running
C19_Witness ==
  /\ Len(calls) >= 2
  /\ \E c, d \in Callers :
       /\ c # d
       /\ calls[c].fn = calls[d].fn
       /\ calls[c].done
       /\ calls[c].out # <<>>
       /\ Len(calls[c].out) < Len(Walked(calls[c]))
       /\ ~ calls[d].done
       /\ calls[d].i > 0
       /\ calls[d].fn # "idle"

MgrRendered == ~ IsNull(mgrCards)
AbsentOrEmpty(arg) == arg = Undefined \/ IsNull(arg) \/ Val(arg) = <<>>

\* C20: the list-returning skill operations are total and empty on empty
\* inputs: in every rendered list of the manager no call has raised an
\* error, the matching skills of a card are empty whenever the applicant's
\* or the job's skill list is empty or absent, and the missing skills are
\* empty whenever the job's skill list is empty or absent.
C20_TotalAndEmptyOnEmpty ==
  MgrRendered =>
    /\ ~ Val(mgrCards).threw
    /\ \A i \in 1..Len(mgrApplications) :
         LET applicantSkills == ApplicantSkillsOf(mgrApplications[i])
             requiredSkills == RequiredSkillsOf(mgrApplications[i])
             card == Val(mgrCards).cards[i]
         IN  /\ (AbsentOrEmpty(applicantSkills) \/ AbsentOrEmpty(requiredSkills))
                  => card.matchingSkills = <<>>
             /\ AbsentOrEmpty(requiredSkills) => card.missingSkills = <<>>

\* the step sends an insert for this job
InsertIssued(jobId) ==
  /\ Len(inflight') = Len(inflight) + 1
  /\ inflight'[Len(inflight')] = jobId

\* C21: at most one insert is issued per job: no click on Apply sends an
\* insert for a job that already has an insert awaiting its reply or that
\* is in the applied set.
C21_NoSecondInsert ==
  [][\A jobId \in JobIds :
       InsertIssued(jobId) =>
         /\ jobId \notin Elems(inflight)
         /\ jobId \notin applications]_vars

TimestampIffNotPending(rows) ==
  \A i \in 1..Len(rows) :
    ~ IsNull(rows[i].reviewed_at) <=> rows[i].status # "pending"

\* C23: in every state reached through status updates of either employer
\* screen, an application has a reviewed-at timestamp exactly when its
\* status is not pending, in the store and in the lists of both screens.
C23_TimestampIffNotPending ==
  /\ TimestampIffNotPending(dbApplications)
  /\ TimestampIffNotPending(mgrApplications)
  /\ TimestampIffNotPending(dashApplications)

\* C24: updateApplicationStatus of the manager changes nothing on failure
\* and only its target on success: a failed update and the sending of an
\* update leave the local list as it is; a successful update gives the row
\* with the given id the new status and a reviewed-at value and leaves every
\* other row, the order and the length of the list as they are.
C24_OnlyTargetOnSuccess ==
  [][/\ \A k \in 1..MaxUpdates :
          UpdateFails(k) => mgrApplications' = mgrApplications
     /\ Len(statusUpdates') > Len(statusUpdates)
          => mgrApplications' = mgrApplications
     /\ \A k \in 1..Len(statusUpdates) :
          MgrUpdateSucceeds(k) =>
            /\ Len(mgrApplications') = Len(mgrApplications)
            /\ \A i \in 1..Len(mgrApplications) :
                 /\ mgrApplications'[i].id = mgrApplications[i].id
                 /\ IF mgrApplications[i].id = statusUpdates[k].id
                    THEN /\ mgrApplications'[i].status = statusUpdates[k].status
                         /\ ~ IsNull(mgrApplications'[i].reviewed_at)
                    ELSE mgrApplications'[i] = mgrApplications[i]
    ]_vars
\* the second of several applications was accepted by a successful update,
\* the first is still pending and untouched, no update is awaited
C24_Witness ==
  /\ Len(mgrApplications) >= 2
  /\ mgrApplications[1] = NewApplication(1)
  /\ mgrApplications[2].status = "accepted"
  /\ statusUpdates = <<>>

\* C25: on a rendered job card a required skill is drawn as matched exactly
\* when it is not in the card's missing-skill list: the matched and the
\* missing required skills partition the required list.
C25_MatchedIffNotMissing ==
  Rendered =>
    \A k \in 1..Len(Required(1)) :
      CardOf(1).badges[k]
        <=> ~ arrayIncludes(CardOf(1).missingSkills, Required(1)[k])

NoRepeats(list) == \A i, k \in 1..Len(list) : list[i] = list[k] => i = k
TrimmedNonEmpty(list) ==
  \A i \in 1..Len(list) : list[i] # <<>> /\ trim(list[i]) = list[i]

\* C26: from a skill list without repeated strings, after any addSkill and
\* removeSkill operations the local list has no two identical strings and
\* every entry is trimmed and non-empty, and so has every list sent to and
\* stored in the profile; an addSkill of a string already in the list
\* changes neither the list nor the profile and sends no update.
C26_UniqueTrimmedSkills ==
  /\ [](/\ NoRepeats(sm_skills)
        /\ TrimmedNonEmpty(sm_skills)
        /\ NoRepeats(OrElse(sm_dbSkills, <<>>))
        /\ TrimmedNonEmpty(OrElse(sm_dbSkills, <<>>)))
  /\ [][(SmAddSkill /\ arrayIncludes(sm_skills, trim(sm_newSkill)))
          => /\ sm_skills' = sm_skills
             /\ sm_dbSkills' = sm_dbSkills
             /\ sm_update' = sm_update]_vars
\* an add of js awaits its reply while JS is stored: both spellings are in
\* the local list, the input is cleared
C26_Witness ==
  /\ sm_isLoading
  /\ sm_skills = <<JS, js>>
  /\ sm_update = Some([updated |-> <<JS, js>>, previous |-> <<JS>>])
  /\ sm_dbSkills = Some(<<JS>>)
  /\ sm_newSkill = <<>>

HasRequiredSkills(row) ==
  ~ IsNull(row.required_skills) /\ Len(Val(row.required_skills)) > 0

\* C28: every posting an employer creates or updates is saved with at least
\* one required skill: every row of the store, and every save sent to it by
\* the posting form or by the dashboard, carries a non-empty list.
C28_SavedWithRequiredSkills ==
  /\ \A i \in 1..Len(dbJobs) : HasRequiredSkills(dbJobs[i])
  /\ \A k \in 1..Len(jobSaves) : HasRequiredSkills(jobSaves[k])

\* C29: every rating record sent or stored has a rating from 1 to 5;
\* handleSubmit with rating 0 sends nothing; a failed insert keeps the
\* rating and the review, leaves the dialog as it is and does not call
\* onRatingSubmitted, which is called once per stored record; the loading
\* flag is set exactly while an insert is awaited.
C29_RatingsOneToFive ==
  /\ [](/\ \A i \in 1..Len(dbRatings) : dbRatings[i].rating \in 1..5
        /\ ~ IsNull(rd_insert) => Val(rd_insert).rating \in 1..5
        /\ rd_submitted = Len(dbRatings)
        /\ rd_isLoading <=> ~ IsNull(rd_insert))
  /\ [][(RdHandleSubmit /\ rd_rating = 0)
          => (rd_insert' = rd_insert /\ dbRatings' = dbRatings)]_vars
  /\ [][RdInsertFails
          => /\ rd_rating' = rd_rating
             /\ rd_review' = rd_review
             /\ rd_isOpen' = rd_isOpen
             /\ rd_submitted' = rd_submitted
             /\ ~ rd_isLoading']_vars
\* a rating was stored: the dialog is closed and reset, onRatingSubmitted
\* was called once, nothing is awaited
C29_Witness ==
  /\ Len(dbRatings) = 1
  /\ rd_submitted = 1
  /\ ~ rd_isOpen
  /\ rd_rating = 0
  /\ rd_review = <<>>
  /\ ~ rd_isLoading

====
